---- MODULE Spec2Model ----
(***************************************************************************)
(* Model of the YOLO output decoder of myolo/model.py: BoundBox, bbox_iou, *)
(* _interval_overlap, batch_decode_yolo, _sigmoid and _softmax.            *)
(*                                                                         *)
(* Floating-point numbers are modelled in fixed point: the integer v       *)
(* stands for the number v / Scale.  Pixel coordinates are Python ints and *)
(* are modelled as integers.                                               *)
(***************************************************************************)
EXTENDS Integers, Sequences, FiniteSets, TLC

\* ------------------------------------------------------------------------
\* Fixed-point arithmetic
\* ------------------------------------------------------------------------

\* One unit of the fixed-point representation (three decimal digits).
Scale == 10 * 10 * 10

Abs(v) == IF v < 0 THEN -v ELSE v

\* Variant: int() rounds toward minus infinity.
FloorDiv(n, d) == n \div d

\* Python's int() on a quotient: truncation toward zero.
TruncDiv(n, d) ==
    IF d < 0 THEN (IF n <= 0 THEN (-n) \div (-d) ELSE -(n \div (-d)))
    ELSE (IF n >= 0 THEN n \div d ELSE -((-n) \div d))

\* Quotient rounded to the nearest integer (d > 0).
RoundDiv(n, d) ==
    IF n >= 0 THEN (2 * n + d) \div (2 * d) ELSE -((2 * (-n) + d) \div (2 * d))

SetMax(S) == CHOOSE m \in S : \A v \in S : v <= m
SetMin(S) == CHOOSE m \in S : \A v \in S : m <= v
Min2(a, b) == IF a <= b THEN a ELSE b

RECURSIVE SeqSum(_)
SeqSum(s) == IF s = <<>> THEN 0 ELSE Head(s) + SeqSum(Tail(s))

\* Taylor series of exp on [0, 1], carried with two extra digits.
RECURSIVE ExpTerms(_, _, _)
ExpTerms(v, n, term) ==
    IF term = 0 \/ n > 12 THEN 0
    ELSE term + ExpTerms(v, n + 1, (term * v) \div (n * Scale))

ExpUnit(v) == RoundDiv(ExpTerms(v, 1, 100 * Scale), 100)

\* np.exp on a fixed-point argument.  exp(v) = e * exp(v - 1) above 1,
\* 1 / exp(-v) below 0, and the values that round to 0, 1 or 2 thousandths
\* far below zero.
RECURSIVE Exp(_)
Exp(v) ==
    IF v < -7600 THEN 0
    ELSE IF v < -6501 THEN 1
    ELSE IF v < -6 * Scale THEN 2
    ELSE IF v < 0 THEN RoundDiv(Scale * Scale, Exp(-v))
    ELSE IF v <= Scale THEN ExpUnit(v)
    ELSE RoundDiv(Exp(v - Scale) * ExpUnit(Scale), Scale)

\* _sigmoid(x) = 1 / (1 + exp(-x)); evaluated as exp(x) / (1 + exp(x)) for
\* x < 0, the same number, so that exp is never taken of a large argument.
_sigmoid(v) ==
    IF v >= 0 THEN RoundDiv(Scale * Scale, Scale + Exp(-v))
    ELSE RoundDiv(Scale * Exp(v), Scale + Exp(v))

\* ------------------------------------------------------------------------
\* The raw prediction array (a numpy ndarray, passed by reference)
\* ------------------------------------------------------------------------

\* An ndarray whose last axis is the channel axis is the record
\*   shape : the tuple yolo_out.shape
\*   cells : the channel vectors stored at the listed index tuples (indices
\*           on every axis but the last, 0-based as in the source)
\*   bg    : the channel vector stored at every other index tuple
\* so that a large array that is uniform outside a few cells stays small.
\* Every whole-array operation of the source acts on cells and bg alike.
Rank(t) == Len(t.shape)

Get(t, idx) == IF idx \in DOMAIN t.cells THEN t.cells[idx] ELSE t.bg

Range(s) == {s[k] : k \in DOMAIN s}

\* yolo_out[..., 5:] of one channel vector.
ClassPart(vec) == SubSeq(vec, 6, Len(vec))

\* Every element of yolo_out[..., 5:].
ClassVals(t) ==
    UNION ({Range(ClassPart(t.cells[ix])) : ix \in DOMAIN t.cells}
           \cup {Range(ClassPart(t.bg))})

\* The floor t of _softmax (its default argument t=-100.).
SoftmaxFloor == -100 * Scale

\* x = x - np.max(x): the maximum of the whole array, not of one vector.
SoftmaxShift(t) == SetMax(ClassVals(t))

\* np.min(x) after the shift, again of the whole array.
SoftmaxMin(t) == SetMin(ClassVals(t)) - SoftmaxShift(t)

\* One element after "x = x - np.max(x)" and "x = x / np.min(x) * t".
SoftmaxStabilise(v, gmax, gmin) ==
    IF gmin < SoftmaxFloor
    THEN -(RoundDiv(Abs(v - gmax) * 100 * 10, Abs(gmin)) * (Scale \div 10))
    ELSE v - gmax

\* e_x / e_x.sum(axis, keepdims=True) along the last axis of one vector x,
\* given the array-wide maximum and shifted minimum.
_softmax(x, gmax, gmin) ==
    LET e_x == [k \in DOMAIN x |-> Exp(SoftmaxStabilise(x[k], gmax, gmin))]
        tot == SeqSum(e_x)
    IN  [k \in DOMAIN x |-> RoundDiv(e_x[k] * Scale, tot)]

\* objectness * class probability (line 672), before the threshold mask.
ClassScores(vec, gmax, gmin) ==
    LET conf == _sigmoid(vec[5])
        prob == _softmax(ClassPart(vec), gmax, gmin)
    IN  [k \in DOMAIN prob |-> RoundDiv(conf * prob[k], Scale)]

\* Variant: the mask of line 673 is built with >=.
ThresholdMaskAtLeast(score, thre) == IF score >= thre THEN score ELSE 0

\* yolo_out[..., 5:] *= yolo_out[..., 5:] > obj_thre  (line 673), one element.
ThresholdMask(score, thre) == IF score > thre THEN score ELSE 0

\* Lines 671-673 on one channel vector.
ActivateVec(vec, gmax, gmin, thre) ==
    LET sc == ClassScores(vec, gmax, gmin)
    IN  SubSeq(vec, 1, 4) \o << _sigmoid(vec[5]) >>
        \o [k \in DOMAIN sc |-> ThresholdMask(sc[k], thre)]

\* Lines 671-673 on the whole array, in place.
ActivateArray(t, thre) ==
    LET gmax == SoftmaxShift(t)
        gmin == SoftmaxMin(t)
    IN  [t EXCEPT !.cells = [ix \in DOMAIN t.cells |->
                                ActivateVec(t.cells[ix], gmax, gmin, thre)],
                  !.bg = ActivateVec(t.bg, gmax, gmin, thre)]

\* ------------------------------------------------------------------------
\* BoundBox, bbox_iou, _interval_overlap
\* ------------------------------------------------------------------------

\* BoundBox.__init__.  classes is a numpy view of yolo_out[row, col, b, 5:]:
\* the box holds the index of its cell (field cell) and its class scores
\* are read from, and written to, the array itself.
BoundBox(xmin, ymin, xmax, ymax, conf, cell) ==
    [xmin |-> xmin, ymin |-> ymin, xmax |-> xmax, ymax |-> ymax,
     c |-> conf, cell |-> cell, label |-> -1, score |-> -1]

\* box.classes, through the view.
Classes(t, box) == ClassPart(Get(t, box.cell))

\* Variant: the second branch subtracts the start of the first interval.
IntervalOverlapFromFirst(interval_a, interval_b) ==
    LET x1 == interval_a[1]
        x2 == interval_a[2]
        x3 == interval_b[1]
        x4 == interval_b[2]
    IN  IF x3 < x1
        THEN (IF x4 < x1 THEN 0 ELSE Min2(x2, x4) - x1)
        ELSE (IF x2 < x3 THEN 0 ELSE Min2(x2, x4) - x1)

_interval_overlap(interval_a, interval_b) ==
    LET x1 == interval_a[1]
        x2 == interval_a[2]
        x3 == interval_b[1]
        x4 == interval_b[2]
    IN  IF x3 < x1
        THEN (IF x4 < x1 THEN 0 ELSE Min2(x2, x4) - x1)
        ELSE (IF x2 < x3 THEN 0 ELSE Min2(x2, x4) - x3)

\* bbox_iou up to its last line: the pair <<intersect, union>>.
IouParts(box1, box2) ==
    LET intersect_w == _interval_overlap(<<box1.xmin, box1.xmax>>,
                                         <<box2.xmin, box2.xmax>>)
        intersect_h == _interval_overlap(<<box1.ymin, box1.ymax>>,
                                         <<box2.ymin, box2.ymax>>)
        intersect == intersect_w * intersect_h
        w1 == box1.xmax - box1.xmin
        h1 == box1.ymax - box1.ymin
        w2 == box2.xmax - box2.xmin
        h2 == box2.ymax - box2.ymin
    IN  <<intersect, w1 * h1 + w2 * h2 - intersect>>

\* float(intersect) / union: the quotient num / den with den > 0, or the
\* ZeroDivisionError Python raises for a union of 0 (union is a Python int).
bbox_iou(box1, box2) ==
    LET p == IouParts(box1, box2)
    IN  IF p[2] = 0 THEN [error |-> "ZeroDivisionError", num |-> 0, den |-> 0]
        ELSE IF p[2] < 0 THEN [error |-> "none", num |-> -p[1], den |-> -p[2]]
        ELSE [error |-> "none", num |-> p[1], den |-> p[2]]

\* Variant: the comparison of line 715 is strict.
IouAbove(iou, thre) == iou.num * Scale > thre * iou.den

\* iou >= nms_thre for a quotient and a fixed-point threshold (line 715).
IouAtLeast(iou, thre) == iou.num * Scale >= thre * iou.den

\* ------------------------------------------------------------------------
\* batch_decode_yolo: candidate construction (lines 664-700)
\* ------------------------------------------------------------------------

\* batch, grid_h, grid_w, nb_box = yolo_out.shape[:4]
ShapeBatch(t) == t.shape[1]
ShapeGridH(t) == t.shape[2]
ShapeGridW(t) == t.shape[3]
ShapeNbBox(t) == t.shape[4]

\* The triples <<row, col, b>> the three loops visit, and the position of
\* each in the visiting order.
LoopTriples(t) ==
    {<<row, col, b>> : row \in 0 .. ShapeGridH(t) - 1,
                       col \in 0 .. ShapeGridW(t) - 1,
                       b \in 0 .. ShapeNbBox(t) - 1}

LoopPos(t, tr) ==
    (tr[1] * ShapeGridW(t) + tr[2]) * ShapeNbBox(t) + tr[3]

\* yolo_out[row, col, b, 5:] raises IndexError when an index is out of the
\* bounds of its own axis: row indexes axis 0, col axis 1, b axis 2.
IndexOutOfBounds(t, tr) ==
    tr[1] >= t.shape[1] \/ tr[2] >= t.shape[2] \/ tr[3] >= t.shape[3]

\* np.sum(yolo_out[row, col, b, 5:]).  On an array of rank 4 the slice is
\* taken on the channel axis; on an array of rank 5 it is taken on axis 3
\* and the sum runs over whole channel vectors.
ClassSum(t, tr) ==
    IF Rank(t) = 4 THEN SeqSum(ClassPart(Get(t, tr)))
    ELSE LET rows == {a \in 5 .. t.shape[4] - 1 : TRUE}
             RECURSIVE Sum(_)
             Sum(S) == IF S = {} THEN 0
                       ELSE LET a == CHOOSE a \in S : TRUE
                            IN  SeqSum(Get(t, tr \o <<a>>)) + Sum(S \ {a})
         IN  Sum(rows)

\* The exception a visited triple raises, or "none".
TripleError(t, anchors, tr) ==
    IF IndexOutOfBounds(t, tr) THEN "IndexError"
    ELSE IF ClassSum(t, tr) <= 0 THEN "none"
    ELSE IF 2 * tr[3] + 1 >= Len(anchors) THEN "IndexError"
    ELSE IF Rank(t) # 4 THEN "TypeError"
    ELSE "none"

\* Lines 683-698 for one triple of an array of rank 4.
DecodeBox(t, anchors, fm, tr) ==
    LET vec == Get(t, tr)
        fm_height == fm[1]
        fm_width == fm[2]
        \* x, w and y, h in units of 1 / (2 * Scale^2 * grid)
        x2 == 2 * Scale * (tr[2] * Scale + _sigmoid(vec[1]))
        y2 == 2 * Scale * (tr[1] * Scale + _sigmoid(vec[2]))
        w == anchors[2 * tr[3] + 1] * Exp(vec[3])
        h == anchors[2 * tr[3] + 2] * Exp(vec[4])
        dx == 2 * Scale * Scale * ShapeGridW(t)
        dy == 2 * Scale * Scale * ShapeGridH(t)
        xmin == Min2(TruncDiv((x2 - w) * fm_width, dx), fm_height)
        ymin == Min2(TruncDiv((y2 - h) * fm_height, dy), fm_height)
        xmax == Min2(TruncDiv((x2 + w) * fm_width, dx), fm_width)
        ymax == Min2(TruncDiv((y2 + h) * fm_height, dy), fm_height)
    IN  BoundBox(xmin, ymin, xmax, ymax, vec[5], tr)

\* Lines 685-692 for one triple: the corners of the first BoundBox, in
\* units of the image, as numerators over the denominators dx (for x) and
\* dy (for y).
NormalisedBox(t, anchors, tr) ==
    LET vec == Get(t, tr)
        x2 == 2 * Scale * (tr[2] * Scale + _sigmoid(vec[1]))
        y2 == 2 * Scale * (tr[1] * Scale + _sigmoid(vec[2]))
        w == anchors[2 * tr[3] + 1] * Exp(vec[3])
        h == anchors[2 * tr[3] + 2] * Exp(vec[4])
    IN  [xmin |-> x2 - w, ymin |-> y2 - h, xmax |-> x2 + w, ymax |-> y2 + h,
         dx |-> 2 * Scale * Scale * ShapeGridW(t),
         dy |-> 2 * Scale * Scale * ShapeGridH(t)]

\* The loops of lines 675-700 as a whole: the visiting position of the
\* first triple that raises (or the number of triples when none does), the
\* exception, and the boxes appended before it, in visiting order.
FirstRaise(t, anchors) ==
    LET bad == {tr \in LoopTriples(t) : TripleError(t, anchors, tr) # "none"}
    IN  IF bad = {} THEN <<Cardinality(LoopTriples(t)), "none">>
        ELSE LET tr == CHOOSE u \in bad :
                          \A v \in bad : LoopPos(t, u) <= LoopPos(t, v)
             IN  <<LoopPos(t, tr), TripleError(t, anchors, tr)>>

BuildCandidates(t, anchors, fm) ==
    LET stop == FirstRaise(t, anchors)[1]
        hit == {tr \in LoopTriples(t) :
                   /\ LoopPos(t, tr) < stop
                   /\ ClassSum(t, tr) > 0}
        nth(k) == CHOOSE tr \in hit :
                     Cardinality({u \in hit : LoopPos(t, u) < LoopPos(t, tr)})
                        = k - 1
    IN  [k \in 1 .. Cardinality(hit) |-> DecodeBox(t, anchors, fm, nth(k))]

\* ------------------------------------------------------------------------
\* batch_decode_yolo: suppression and final filter (lines 702-723)
\* ------------------------------------------------------------------------

\* boxes[k] and sorted_indices[k] with the 0-based index of the source.
At(seq, k) == seq[k + 1]

\* [box.classes[c] for box in boxes]
ClassColumn(t, bxs, c) == [k \in DOMAIN bxs |-> At(Classes(t, bxs[k]), c)]

\* list(reversed(np.argsort(column))): np.argsort's default kind is not a
\* stable sort, so among equal scores any order may come out.  The possible
\* results are the permutations of 0 .. N-1 along which the column does not
\* increase.
SortedIndices(column) ==
    LET N == Len(column)
    IN  {p \in [1 .. N -> 0 .. N - 1] :
            /\ \A a, b \in 1 .. N : a # b => p[a] # p[b]
            /\ \A a, b \in 1 .. N : a < b => At(column, p[a]) >= At(column, p[b])}

\* Variant: the whole score vector of the box is cleared.
ZeroAllClasses(t, cell, c) ==
    LET vec == Get(t, cell)
    IN  [t EXCEPT !.cells =
            [ix \in DOMAIN t.cells \cup {cell} |->
                IF ix = cell THEN SubSeq(vec, 1, 5) \o [k \in 1 .. Len(vec) - 5 |-> 0]
                ELSE t.cells[ix]]]

\* boxes[index].classes[c] = 0, written through the view into the array.
ZeroClass(t, cell, c) ==
    LET vec == Get(t, cell)
    IN  [t EXCEPT !.cells =
            [ix \in DOMAIN t.cells \cup {cell} |->
                IF ix = cell THEN [vec EXCEPT ![5 + c + 1] = 0]
                ELSE t.cells[ix]]]

RECURSIVE ZeroClasses(_, _, _)
ZeroClasses(t, cells, c) ==
    IF cells = {} THEN t
    ELSE LET cell == CHOOSE x \in cells : TRUE
         IN  ZeroClasses(ZeroClass(t, cell, c), cells \ {cell}, c)

\* The inner loop of lines 712-716 for position i of the ordering: the
\* position j at which bbox_iou raises (N when it does not), and the boxes
\* zeroed before that.
InnerRaise(bxs, order, i) ==
    LET N == Len(order)
        bad == {j \in i + 1 .. N - 1 :
                   bbox_iou(At(bxs, At(order, i)), At(bxs, At(order, j))).error
                      # "none"}
    IN  IF bad = {} THEN N ELSE SetMin(bad)

\* Variant: the inner loop compares only the next box of the ordering
\* (range(i + 1, i + 2)).
SuppressedNextOnly(bxs, order, i, thre) ==
    {At(order, j) : j \in
        {j \in i + 1 .. Min2(i + 1, InnerRaise(bxs, order, i) - 1) :
            IouAtLeast(bbox_iou(At(bxs, At(order, i)), At(bxs, At(order, j))),
                       thre)}}

Suppressed(bxs, order, i, thre) ==
    {At(order, j) : j \in
        {j \in i + 1 .. InnerRaise(bxs, order, i) - 1 :
            IouAtLeast(bbox_iou(At(bxs, At(order, i)), At(bxs, At(order, j))),
                       thre)}}

\* Variant: the test of line 709 is missing, a box already zeroed for the
\* class still suppresses the boxes after it.
SuppressAtUnguarded(t, bxs, order, i, c, thre) ==
    ZeroClasses(t, {At(bxs, k).cell : k \in Suppressed(bxs, order, i, thre)}, c)

\* One iteration of the loop of line 706 (lines 707-716) on the array.
SuppressAt(t, bxs, order, i, c, thre) ==
    IF At(Classes(t, At(bxs, At(order, i))), c) = 0 THEN t
    ELSE ZeroClasses(t, {At(bxs, k).cell : k \in Suppressed(bxs, order, i, thre)}, c)

\* Whether that iteration raises.
SuppressRaises(t, bxs, order, i, c) ==
    /\ At(Classes(t, At(bxs, At(order, i))), c) # 0
    /\ InnerRaise(bxs, order, i) < Len(order)

\* The loop of line 706 from position i to its end: the array it leaves, and
\* the exception that stops it, if any.
RECURSIVE Walk(_, _, _, _, _, _)
Walk(t, bxs, order, i, c, thre) ==
    IF i >= Len(order) THEN [error |-> "none", arr |-> t]
    ELSE IF SuppressRaises(t, bxs, order, i, c)
    THEN [error |-> "ZeroDivisionError",
          arr |-> SuppressAt(t, bxs, order, i, c, thre)]
    ELSE Walk(SuppressAt(t, bxs, order, i, c, thre), bxs, order, i + 1, c, thre)

\* The loop of line 703 over the classes of the sequence cs, in that order:
\* every outcome it can have, one for each choice of the orderings.
RECURSIVE RunPasses(_, _, _, _)
RunPasses(t, bxs, cs, thre) ==
    IF cs = <<>> THEN {[error |-> "none", arr |-> t]}
    ELSE UNION {LET r == Walk(t, bxs, order, 0, Head(cs), thre)
                IN  IF r.error # "none" THEN {r}
                    ELSE RunPasses(r.arr, bxs, Tail(cs), thre) :
                   order \in SortedIndices(ClassColumn(t, bxs, Head(cs)))}

\* np.argmax: the first index of the maximum.
ArgMax(s) == SetMin({k \in 0 .. Len(s) - 1 : \A m \in 0 .. Len(s) - 1 : At(s, m) <= At(s, k)})

\* BoundBox.get_label and BoundBox.get_score: the box after the call (its
\* cached fields filled in).
get_label(t, box) ==
    IF box.label = -1 THEN [box EXCEPT !.label = ArgMax(Classes(t, box))] ELSE box

get_score(t, box) ==
    IF box.score = -1
    THEN LET b1 == get_label(t, box)
         IN  [b1 EXCEPT !.score = At(Classes(t, b1), b1.label)]
    ELSE box

\* Variant: the filter tests the objectness instead of the class score.
KeepsConfident(box, thre) == box.c > thre

\* box.get_score() > obj_thre  (line 719)
Keeps(box, thre) == box.score > thre

\* boxes = [box for box in boxes if box.get_score() > obj_thre]
FilterBoxes(t, bxs, thre) ==
    SelectSeq([k \in DOMAIN bxs |-> get_score(t, bxs[k])], LAMBDA b : Keeps(b, thre))

\* ------------------------------------------------------------------------
\* Inputs of the calls
\* ------------------------------------------------------------------------

\* Number of classes of the inputs.
NbClass == 2

\* Channels per anchor slot: tx, ty, tw, th, objectness, one per class.
NbChannel == 5 + NbClass

Zeros == [k \in 1 .. NbClass |-> 0]
Hot(k, v) == [m \in 1 .. NbClass |-> IF m = k THEN v ELSE 0]

\* tx, ty, tw, th: a box of one grid cell, a wide one, and one so small
\* that both of its corners truncate to the same pixel.
GeomUnit == <<0, 0, 0, 0>>
GeomWide == <<0, 0, Scale, 0>>
GeomTiny == <<Scale \div 2, Scale \div 2, -3 * Scale, -3 * Scale>>

\* Objectness logit and class logits.
ScoreOff == <<-800 * Scale>> \o Zeros
ScoreStrongFlat == <<3 * Scale>> \o Zeros
ScoreStrongFirst == <<3 * Scale>> \o Hot(1, 2 * Scale)
ScoreStrongSecond == <<3 * Scale>> \o Hot(2, 2 * Scale)
ScoreWeakFirst == <<0>> \o Hot(1, 2 * Scale)
ScoreWeakFlat == <<0>> \o Zeros

\* The channel vector of every cell that is not listed.
Background == GeomUnit \o ScoreOff

Array(shape, cells) == [shape |-> shape, cells |-> cells, bg |-> Background]

Call(arr, anchors, fm, obj_thre, nms_thre) ==
    [yolo_out |-> arr, anchors |-> anchors, nb_class |-> NbClass,
     feature_map_shape |-> fm, obj_thre |-> obj_thre, nms_thre |-> nms_thre]

UnitAnchors(n) == [k \in 1 .. n |-> Scale]

\* The smallest array of rank 4 on which the loops of lines 675-677 stay
\* inside the array: shape[3] <= shape[2] <= shape[1] <= shape[0], where
\* shape[3] is the channel count.
SquareShape == <<NbChannel, NbChannel, NbChannel, NbChannel>>

FeatureMap == <<28, 28>>

SquareArrays ==
    {Array(SquareShape,
           (<<0, 0, 0>> :> (g1 \o s1)) @@ (<<0, 0, 1>> :> (g2 \o s2))
              @@ (<<0, 1, 0>> :> (g3 \o s3))) :
        g1 \in {GeomUnit, GeomTiny},
        s1 \in {ScoreStrongFirst, ScoreStrongFlat, ScoreWeakFlat},
        g2 \in {GeomWide, GeomTiny},
        s2 \in {ScoreOff, ScoreWeakFirst, ScoreStrongFlat, ScoreStrongSecond},
        g3 \in {GeomWide, GeomUnit},
        s3 \in {ScoreOff, ScoreWeakFirst, ScoreStrongFlat}}

\* Calls whose configuration is the one the array asks for.
SquareCalls ==
    {Call(arr, UnitAnchors(2 * NbChannel), FeatureMap, ot, nt) :
        arr \in SquareArrays, ot \in {250, 300}, nt \in {300, 400}}

OneArray ==
    Array(SquareShape,
          (<<0, 0, 0>> :> (GeomUnit \o ScoreStrongFirst))
             @@ (<<0, 0, 1>> :> (GeomWide \o ScoreWeakFirst)))

\* Calls with an anchor list of the wrong length or a threshold outside
\* [0, 1].
MisconfiguredCalls ==
    {Call(OneArray, UnitAnchors(2), FeatureMap, 300, 300),
     Call(OneArray, UnitAnchors(2 * NbChannel + 2), FeatureMap, 300, 300),
     Call(OneArray, UnitAnchors(2 * NbChannel), FeatureMap, 1500, 300),
     Call(OneArray, UnitAnchors(2 * NbChannel), FeatureMap, 300, 1500),
     Call(OneArray, UnitAnchors(2 * NbChannel), FeatureMap, 300, -100)}

\* Batched arrays [batch, gridH, gridW, numAnchors, 5 + numClasses], and a
\* single image [gridH, gridW, numAnchors, 5 + numClasses] of a 2 x 1 grid.
BatchCalls ==
    {Call(Array(shape, (<<0, 0, 0, 0>> :> (GeomUnit \o s1))
                          @@ (<<1, 0, 0, 0>> :> (GeomWide \o s2))),
          UnitAnchors(2 * shape[4]), FeatureMap, 300, 300) :
        shape \in {<<2, 2, 2, 1, NbChannel>>, <<1, 2, 2, 1, NbChannel>>},
        s1 \in {ScoreStrongFirst, ScoreWeakFirst},
        s2 \in {ScoreStrongFlat, ScoreStrongSecond}}
    \cup
    {Call(Array(<<1, 1, 1, 6, NbChannel>>,
                (<<0, 0, 0, 5>> :> (GeomWide \o ScoreStrongFirst))),
          UnitAnchors(12), FeatureMap, 300, 300),
     Call(Array(<<2, 1, 1, NbChannel>>,
                (<<0, 0, 0>> :> (GeomUnit \o ScoreStrongFirst))),
          UnitAnchors(2), FeatureMap, 300, 300)}

\* A feature map higher than wide, and one wider than high.
FeatureMapTall == <<28, 14>>
FeatureMapWide == <<14, 28>>

\* Calls with a candidate in the last grid cell, whose box reaches the far
\* border of the feature map, on square and non-square feature maps.
EdgeCalls ==
    {Call(Array(SquareShape,
                (<<0, 0, 0>> :> (GeomTiny \o ScoreStrongFirst))
                   @@ (<<0, 0, 1>> :> (GeomWide \o ScoreStrongSecond))
                   @@ (<<NbChannel - 1, NbChannel - 1, 0>> :> (g \o ScoreStrongFirst))),
          UnitAnchors(2 * NbChannel), fm, 300, 300) :
        g \in {GeomUnit, GeomWide},
        fm \in {FeatureMap, FeatureMapTall, FeatureMapWide}}

\* Objectness logit 0 with one class logit far below the others.
ScoreDeepSecond == <<0>> \o Hot(2, -200 * Scale)

\* Calls in which one triple may hold a class logit more than 100 below
\* the largest class logit of the array.
FloorCalls ==
    {Call(Array(SquareShape,
                (<<0, 0, 0>> :> (GeomUnit \o s1))
                   @@ (<<0, 0, 1>> :> (GeomWide \o s2))),
          UnitAnchors(2 * NbChannel), FeatureMap, 250, 300) :
        s1 \in {ScoreStrongFirst, ScoreStrongFlat},
        s2 \in {ScoreWeakFirst, ScoreDeepSecond}}

Calls == SquareCalls \cup MisconfiguredCalls \cup BatchCalls \cup EdgeCalls
            \cup FloorCalls

\* ------------------------------------------------------------------------
\* State
\* ------------------------------------------------------------------------

VARIABLES
    yolo_out,        \* the array object the caller passes (mutated in place)
    args,            \* anchors, nb_class, feature_map_shape, obj_thre, nms_thre
    entry,           \* the contents of yolo_out when the current call began
    activated,       \* the contents of yolo_out after the activation pass
    pc,              \* position in batch_decode_yolo
    boxes,           \* the local list boxes
    c,               \* loop variable of line 703
    sorted_indices,  \* line 704
    i,               \* loop variable of line 706
    result,          \* the returned list
    err,             \* the exception that ended the call, or "none"
    ncall,           \* 1 during the first call on the array, 2 during the second
    first,           \* how the first call ended
    par              \* per class: progress of its pass when the passes of
                     \* line 703 are run concurrently (used by ParSpec only)

vars == <<yolo_out, args, entry, activated, pc, boxes, c, sorted_indices, i, result, err,
          ncall, first, par>>

Init ==
    \E call \in Calls :
        /\ yolo_out = call.yolo_out
        /\ args = [anchors |-> call.anchors, nb_class |-> call.nb_class,
                   feature_map_shape |-> call.feature_map_shape,
                   obj_thre |-> call.obj_thre, nms_thre |-> call.nms_thre]
        /\ entry = call.yolo_out
        /\ activated = call.yolo_out
        /\ pc = "start"
        /\ boxes = <<>>
        /\ c = 0
        /\ sorted_indices = <<>>
        /\ i = 0
        /\ result = <<>>
        /\ err = "none"
        /\ ncall = 1
        /\ first = [pc |-> "none", result |-> <<>>, err |-> "none"]
        /\ par = [k \in 0 .. call.nb_class - 1 |->
                    [st |-> "todo", order |-> <<>>, i |-> 0]]

\* Lines 664-673: the activation pass, in place on the caller's array.
Activate ==
    /\ pc = "start"
    /\ yolo_out' = ActivateArray(yolo_out, args.obj_thre)
    /\ activated' = yolo_out'
    /\ pc' = "activated"
    /\ UNCHANGED <<args, entry, boxes, c, sorted_indices, i, result, err,
                   ncall, first, par>>

\* Variant: label and score of a box are evaluated when the box is built.
BuildEvaluatingScores ==
    /\ pc = "activated"
    /\ boxes' = [k \in DOMAIN BuildCandidates(yolo_out, args.anchors,
                                              args.feature_map_shape) |->
                    get_score(yolo_out,
                              BuildCandidates(yolo_out, args.anchors,
                                              args.feature_map_shape)[k])]
    /\ err' = FirstRaise(yolo_out, args.anchors)[2]
    /\ pc' = IF err' = "none" THEN "suppress" ELSE "raised"
    /\ c' = 0
    /\ UNCHANGED <<yolo_out, args, entry, activated, sorted_indices, i, result,
                   ncall, first, par>>

\* Lines 675-700: the three loops that build the candidate list.
Build ==
    /\ pc = "activated"
    /\ boxes' = BuildCandidates(yolo_out, args.anchors, args.feature_map_shape)
    /\ err' = FirstRaise(yolo_out, args.anchors)[2]
    /\ pc' = IF err' = "none" THEN "suppress" ELSE "raised"
    /\ c' = 0
    /\ UNCHANGED <<yolo_out, args, entry, activated, sorted_indices, i, result,
                   ncall, first, par>>

\* Lines 703-704: the next class and its ordering.  With no box the loop of
\* line 706 has no iteration and the next class follows.
Sort ==
    /\ pc = "suppress"
    /\ c < args.nb_class
    /\ \E order \in SortedIndices(ClassColumn(yolo_out, boxes, c)) :
          sorted_indices' = order
    /\ i' = 0
    /\ IF Len(boxes) = 0
       THEN c' = c + 1 /\ pc' = "suppress"
       ELSE c' = c /\ pc' = "walk"
    /\ UNCHANGED <<yolo_out, args, entry, activated, boxes, result, err, ncall,
                   first, par>>

\* Lines 706-716: one iteration of the loop over the ordering; after the
\* last one the loop of line 703 goes on to the next class.
Suppress ==
    /\ pc = "walk"
    /\ i < Len(sorted_indices)
    /\ yolo_out' = SuppressAt(yolo_out, boxes, sorted_indices, i, c, args.nms_thre)
    /\ IF SuppressRaises(yolo_out, boxes, sorted_indices, i, c)
       THEN /\ pc' = "raised"
            /\ err' = "ZeroDivisionError"
            /\ UNCHANGED <<c, i>>
       ELSE /\ err' = err
            /\ IF i + 1 = Len(sorted_indices)
               THEN pc' = "suppress" /\ c' = c + 1 /\ i' = 0
               ELSE pc' = "walk" /\ c' = c /\ i' = i + 1
    /\ UNCHANGED <<args, entry, activated, boxes, sorted_indices, result, ncall,
                   first, par>>

\* Lines 719-723: the final filter and the return.
Filter ==
    /\ pc = "suppress"
    /\ c = args.nb_class
    /\ boxes' = [k \in DOMAIN boxes |-> get_score(yolo_out, boxes[k])]
    /\ result' = FilterBoxes(yolo_out, boxes, args.obj_thre)
    /\ pc' = "returned"
    /\ UNCHANGED <<yolo_out, args, entry, activated, c, sorted_indices, i, err,
                   ncall, first, par>>

\* The caller invokes batch_decode_yolo once more with the same array
\* object and the same arguments.
CallAgain ==
    /\ pc \in {"returned", "raised"}
    /\ ncall = 1
    /\ ncall' = 2
    /\ first' = [pc |-> pc, result |-> result, err |-> err]
    /\ entry' = yolo_out
    /\ activated' = yolo_out
    /\ pc' = "start"
    /\ boxes' = <<>>
    /\ c' = 0
    /\ sorted_indices' = <<>>
    /\ i' = 0
    /\ result' = <<>>
    /\ err' = "none"
    /\ UNCHANGED <<yolo_out, args, par>>

Next == Activate \/ Build \/ Sort \/ Suppress \/ Filter \/ CallAgain

Spec == Init /\ [][Next]_vars

\* The passes of the loop of line 703 run concurrently, one worker per
\* class: each worker builds its ordering (line 704) and walks it (lines
\* 706-716), and the steps of different workers interleave.  A worker that
\* has finished holds no ordering any more.
ParSort(k) ==
    /\ pc = "suppress"
    /\ par[k].st = "todo"
    /\ \E order \in SortedIndices(ClassColumn(yolo_out, boxes, k)) :
          par' = [par EXCEPT ![k] = IF Len(boxes) = 0
                                    THEN [st |-> "done", order |-> <<>>, i |-> 0]
                                    ELSE [st |-> "walk", order |-> order, i |-> 0]]
    /\ UNCHANGED <<yolo_out, args, entry, activated, pc, boxes, c,
                   sorted_indices, i, result, err, ncall, first>>

ParSuppress(k) ==
    /\ pc = "suppress"
    /\ par[k].st = "walk"
    /\ yolo_out' = SuppressAt(yolo_out, boxes, par[k].order, par[k].i, k, args.nms_thre)
    /\ IF SuppressRaises(yolo_out, boxes, par[k].order, par[k].i, k)
       THEN /\ pc' = "raised"
            /\ err' = "ZeroDivisionError"
            /\ par' = par
       ELSE /\ pc' = pc
            /\ err' = err
            /\ par' = [par EXCEPT ![k] = IF par[k].i + 1 = Len(par[k].order)
                                          THEN [st |-> "done", order |-> <<>>, i |-> 0]
                                          ELSE [@ EXCEPT !.i = @ + 1]]
    /\ UNCHANGED <<args, entry, activated, boxes, c, sorted_indices, i, result,
                   ncall, first>>

ParNext ==
    \/ Activate
    \/ Build
    \/ \E k \in 0 .. args.nb_class - 1 : ParSort(k)
    \/ \E k \in 0 .. args.nb_class - 1 : ParSuppress(k)

ParSpec == Init /\ [][ParNext]_vars

\* ------------------------------------------------------------------------
\* Properties
\* ------------------------------------------------------------------------

\* The loop of line 703 has run to its end in the current call.
LoopDone == pc = "returned" \/ (pc = "suppress" /\ c = args.nb_class)

ClassIds == 0 .. args.nb_class - 1
BoxIds == 0 .. Len(boxes) - 1
ScoreOf(t, k, cls) == At(Classes(t, At(boxes, k)), cls)

\* Some box lost a positive score of some class to the suppression loop.
SomeSuppressed ==
    \E k \in BoxIds, cls \in ClassIds :
        ScoreOf(activated, k, cls) > 0 /\ ScoreOf(yolo_out, k, cls) = 0

\* C1: once the suppression loop has finished, any two boxes that both keep
\* a positive score for the same class have an IoU strictly below nms_thre
\* (and their IoU is defined).
C1_SurvivorsBelowThreshold ==
    LoopDone =>
        \A cls \in ClassIds : \A a, b \in BoxIds :
            (a # b /\ ScoreOf(yolo_out, a, cls) > 0 /\ ScoreOf(yolo_out, b, cls) > 0)
            => LET r == bbox_iou(At(boxes, a), At(boxes, b))
               IN  r.error = "none" /\ r.num * Scale < args.nms_thre * r.den

\* Two overlapping boxes survive for one class while a third was suppressed.
C1_Witness ==
    /\ pc = "returned"
    /\ SomeSuppressed
    /\ \E cls \in ClassIds : \E a, b \in BoxIds :
          /\ a # b
          /\ ScoreOf(yolo_out, a, cls) > 0
          /\ ScoreOf(yolo_out, b, cls) > 0
          /\ bbox_iou(At(boxes, a), At(boxes, b)).num > 0

ImageHasDetection(n) ==
    \E ix \in DOMAIN activated.cells :
        ix[1] = n - 1 /\ SeqSum(ClassPart(activated.cells[ix])) > 0

\* C3 (as claimed): a call on a batched array of rank 5 with batch > 1
\* returns, and returns one box list per image; the list of an image is
\* non-empty exactly when the image has a class score above obj_thre.
C3_OneBoxListPerImage ==
    (Rank(yolo_out) = 5 /\ ShapeBatch(yolo_out) > 1 /\ pc \in {"returned", "raised"})
    => /\ pc = "returned"
       /\ Len(result) = ShapeBatch(yolo_out)
       /\ \A n \in 1 .. Len(result) : (Len(result[n]) > 0) <=> ImageHasDetection(n)

\* The number of anchor slots of the array: the axis before the channels.
NumAnchors(t) == t.shape[Rank(t) - 1]

ConfigValid ==
    /\ Len(args.anchors) = 2 * NumAnchors(yolo_out)
    /\ args.obj_thre \in 0 .. Scale
    /\ args.nms_thre \in 0 .. Scale

\* C4 (as claimed): under an anchor list of the wrong length or a threshold
\* outside [0, 1] the call does no decode work: the array is as it was on
\* entry, no candidate box exists and nothing is returned.
C4_RejectsBadConfiguration ==
    ~ConfigValid =>
        /\ pc \in {"start", "raised"}
        /\ yolo_out = entry
        /\ boxes = <<>>
        /\ result = <<>>

\* C5 (as claimed): a second call with the same array object and the same
\* arguments ends as the first one did, with the same box list.
C5_SecondCallSameResult ==
    (ncall = 2 /\ pc \in {"returned", "raised"})
    => /\ pc = first.pc
       /\ err = first.err
       /\ result = first.result

\* Every pass of the concurrent run has finished.
ParDone == pc = "suppress" /\ \A k \in DOMAIN par : par[k].st = "done"

\* The outcomes of the loop of line 703 run sequentially in index order on
\* the candidate list.
SequentialOutcomes ==
    RunPasses(activated, boxes, [k \in 1 .. args.nb_class |-> k - 1], args.nms_thre)

\* C6: however the steps of the per-class passes interleave (running the
\* passes one after another in any order of the classes included), the class
\* scores they leave are scores the sequential loop in index order can
\* leave, and they raise only if the sequential loop can raise.
C6_InterleavedPassesAgree ==
    /\ ParDone => [error |-> "none", arr |-> yolo_out] \in SequentialOutcomes
    /\ (pc = "raised" /\ err = "ZeroDivisionError")
          => \E r \in SequentialOutcomes : r.error # "none"

\* Two passes are both part-way through their orderings, each having
\* suppressed a box, and some box had positive scores for both classes.
C6_Witness ==
    /\ pc = "suppress"
    /\ \E k1, k2 \in DOMAIN par :
          /\ k1 # k2
          /\ par[k1].st = "walk" /\ par[k1].i > 0
          /\ par[k2].st = "walk" /\ par[k2].i > 0
          /\ \E a \in BoxIds : ScoreOf(activated, a, k1) > 0 /\ ScoreOf(yolo_out, a, k1) = 0
          /\ \E a \in BoxIds : ScoreOf(activated, a, k2) > 0 /\ ScoreOf(yolo_out, a, k2) = 0
          /\ \E a \in BoxIds : ScoreOf(activated, a, k1) > 0 /\ ScoreOf(activated, a, k2) > 0

\* C7 (as claimed): in the ordering built for a class, candidates with
\* equal (positive) scores for that class appear in construction order, the
\* earlier-constructed one first.
C7_TiesKeepConstructionOrder ==
    (pc = "walk" /\ i = 0) =>
        \A a, b \in 0 .. Len(sorted_indices) - 1 :
            (/\ a < b
             /\ ScoreOf(yolo_out, At(sorted_indices, a), c) > 0
             /\ ScoreOf(yolo_out, At(sorted_indices, a), c)
                   = ScoreOf(yolo_out, At(sorted_indices, b), c))
            => At(sorted_indices, a) < At(sorted_indices, b)

\* The class scores of line 672 for the channel vector vec of the array the
\* call was entered with, before the mask of line 673.
UnmaskedScores(vec) == ClassScores(vec, SoftmaxShift(entry), SoftmaxMin(entry))

\* Pairs <<score before the mask, score after the mask>> of every element.
MaskedPairs ==
    UNION ({{<<UnmaskedScores(entry.cells[ix])[k], ClassPart(yolo_out.cells[ix])[k]>> :
                k \in 1 .. NbClass} : ix \in DOMAIN entry.cells}
           \cup {{<<UnmaskedScores(entry.bg)[k], ClassPart(yolo_out.bg)[k]>> :
                    k \in 1 .. NbClass}})

\* C8 (as claimed): the threshold step zeroes exactly the scores strictly
\* below obj_thre and leaves the scores at or above it unchanged.
C8_ZeroesBelowThreshold ==
    pc = "activated" =>
        \A p \in MaskedPairs : p[2] = IF p[1] < args.obj_thre THEN 0 ELSE p[1]

\* C8 (amended): the threshold step zeroes exactly the scores at or below
\* obj_thre and leaves the scores strictly above it unchanged; a score
\* equal to obj_thre is zeroed.
C8_ZeroesAtOrBelowThreshold ==
    pc = "activated" =>
        \A p \in MaskedPairs : p[2] = IF p[1] > args.obj_thre THEN p[1] ELSE 0

\* The activation pass met a score equal to obj_thre, one above and a
\* positive one below.
C8_Witness ==
    /\ pc = "activated"
    /\ \E p \in MaskedPairs : p[1] = args.obj_thre /\ p[2] = 0
    /\ \E p \in MaskedPairs : p[1] > args.obj_thre /\ p[2] = p[1]
    /\ \E p \in MaskedPairs : 0 < p[1] /\ p[1] < args.obj_thre /\ p[2] = 0

\* C9: running the whole suppression loop once more on the list it has
\* just finished changes no class score (and raises nothing), whatever
\* orderings the sort returns.
C9_SuppressionIdempotent ==
    (pc = "suppress" /\ c = args.nb_class)
    => RunPasses(yolo_out, boxes, [k \in 1 .. args.nb_class |-> k - 1], args.nms_thre)
          = {[error |-> "none", arr |-> yolo_out]}

\* The loop has finished after suppressing a box, with two boxes still
\* positive for one class.
C9_Witness ==
    /\ pc = "suppress"
    /\ c = args.nb_class
    /\ SomeSuppressed
    /\ \E cls \in ClassIds : \E a, b \in BoxIds :
          a # b /\ ScoreOf(yolo_out, a, cls) > 0 /\ ScoreOf(yolo_out, b, cls) > 0

\* C10: bbox_iou gives the same outcome (the same quotient, or the same
\* exception) for a pair of candidate boxes in either argument order.
C10_IouSymmetric ==
    \A a, b \in BoxIds :
        bbox_iou(At(boxes, a), At(boxes, b)) = bbox_iou(At(boxes, b), At(boxes, a))

\* The suppression loop compared boxes that touch at a boundary, boxes of
\* which one contains the other, and boxes sharing an edge coordinate.
C10_Witness ==
    /\ LoopDone
    /\ \E a, b \in BoxIds : At(boxes, a).xmax = At(boxes, b).xmin
                            /\ At(boxes, a).xmin < At(boxes, a).xmax
    /\ \E a, b \in BoxIds :
          /\ At(boxes, a).xmin < At(boxes, b).xmin
          /\ At(boxes, b).xmax < At(boxes, a).xmax
          /\ At(boxes, a).ymin = At(boxes, b).ymin
          /\ bbox_iou(At(boxes, a), At(boxes, b)).num > 0

\* C11 (as claimed): bbox_iou of a candidate box with itself does not raise
\* and returns 1 (intersection equal to union).
C11_SelfIouIsOne ==
    \A a \in BoxIds :
        LET r == bbox_iou(At(boxes, a), At(boxes, a))
        IN  r.error = "none" /\ r.num = r.den

\* C12 (as claimed): every candidate box has xmax > xmin and ymax > ymin,
\* and the suppression loop never fails on a division by a zero union.
C12_CandidatesHavePositiveExtent ==
    /\ \A a \in BoxIds : /\ At(boxes, a).xmax > At(boxes, a).xmin
                         /\ At(boxes, a).ymax > At(boxes, a).ymin
    /\ err # "ZeroDivisionError"

\* C13: get_label and get_score are evaluated on no box before the
\* suppression loop has finished (until the return every box still holds
\* label = -1 and score = -1), and every returned box carries as label an
\* index of the maximum of its class scores after suppression and as score
\* the value at that index.
C13_LabelAndScoreAfterSuppression ==
    /\ pc # "returned" =>
          \A a \in BoxIds : At(boxes, a).label = -1 /\ At(boxes, a).score = -1
    /\ pc = "returned" =>
          \A k \in 1 .. Len(result) :
              LET cl == Classes(yolo_out, result[k])
              IN  /\ result[k].label \in 0 .. Len(cl) - 1
                  /\ At(cl, result[k].label) = SetMax(Range(cl))
                  /\ result[k].score = At(cl, result[k].label)

\* A returned box whose largest class score before suppression belonged to
\* another class than its label.
C13_Witness ==
    /\ pc = "returned"
    /\ \E k \in 1 .. Len(result) :
          /\ result[k].label # ArgMax(Classes(activated, result[k]))
          /\ result[k].score > 0

\* Box a has an IoU with box b that is defined and at least nms_thre.
Overlapping(a, b) ==
    LET r == bbox_iou(At(boxes, a), At(boxes, b))
    IN  r.error = "none" /\ r.num * Scale >= args.nms_thre * r.den

\* One iteration of the loop of line 706 changes a class score only of the
\* class of the pass, only to zero, only of a box ranked after the visited
\* one, and only if the visited box has a positive score when it is visited
\* and overlaps the other by at least nms_thre.
SuppressStepJustified ==
    pc = "walk" =>
        \A k \in BoxIds, cls \in ClassIds :
            ScoreOf(yolo_out', k, cls) # ScoreOf(yolo_out, k, cls)
            => /\ cls = c
               /\ ScoreOf(yolo_out', k, cls) = 0
               /\ ScoreOf(yolo_out, At(sorted_indices, i), c) > 0
               /\ \E j \in i + 1 .. Len(sorted_indices) - 1 :
                     At(sorted_indices, j) = k
               /\ Overlapping(At(sorted_indices, i), k)

\* At every point of the suppression loop: a class score is the score the
\* activation left or zero; a box that lost a positive score overlaps, by
\* at least nms_thre, a box that still has a positive score for the class
\* and ranked no lower; and a box with the largest score of a class still
\* has it.
SurvivorsAccountForLosses ==
    pc \in {"suppress", "walk", "returned"} =>
        \A cls \in ClassIds :
            /\ \A k \in BoxIds :
                  /\ ScoreOf(yolo_out, k, cls) \in {0, ScoreOf(activated, k, cls)}
                  /\ ScoreOf(yolo_out, k, cls) # ScoreOf(activated, k, cls)
                     => \E a \in BoxIds :
                           /\ a # k
                           /\ ScoreOf(yolo_out, a, cls) > 0
                           /\ ScoreOf(activated, a, cls) >= ScoreOf(activated, k, cls)
                           /\ Overlapping(a, k)
            /\ (\E k \in BoxIds : ScoreOf(activated, k, cls) > 0)
               => \E a \in BoxIds :
                     /\ ScoreOf(yolo_out, a, cls) > 0
                     /\ \A k \in BoxIds :
                           ScoreOf(activated, k, cls) <= ScoreOf(yolo_out, a, cls)

\* C14: suppression never over-suppresses.  A pass zeroes a score of box j
\* only when a box ranked before j is positive for the class at the moment
\* it is visited and overlaps j by at least nms_thre; so a box below the
\* threshold against every surviving higher-ranked box keeps its score, a
\* box already zeroed suppresses nothing, and the top-ranked positive box
\* of each class survives.
C14_NoOverSuppression ==
    [][SuppressStepJustified]_vars /\ []SurvivorsAccountForLosses

\* A call returned in which a box zeroed for a class overlaps, by at least
\* nms_thre, a lower-ranked box that kept its positive score for the class,
\* and two boxes that overlap by less than nms_thre both kept theirs.
C14_Witness ==
    /\ pc = "returned"
    /\ \E cls \in ClassIds : \E a, b \in BoxIds :
          /\ ScoreOf(activated, a, cls) > 0
          /\ ScoreOf(yolo_out, a, cls) = 0
          /\ ScoreOf(yolo_out, b, cls) > 0
          /\ ScoreOf(activated, b, cls) <= ScoreOf(activated, a, cls)
          /\ Overlapping(a, b)
    /\ \E cls \in ClassIds : \E a, b \in BoxIds :
          /\ a # b
          /\ ScoreOf(yolo_out, a, cls) > 0
          /\ ScoreOf(yolo_out, b, cls) > 0
          /\ bbox_iou(At(boxes, a), At(boxes, b)).num > 0

\* v is the quotient n / d (d > 0) rounded to a nearest integer and then
\* clipped from above by lim.
ClippedRound(v, n, d, lim) ==
    \/ v = lim /\ 2 * n + d >= 2 * lim * d
    \/ v < lim /\ 2 * Abs(n - v * d) <= d

\* v is the quotient n / d (d > 0) with its fractional part dropped and then
\* clipped from above by lim.
ClippedTrunc(v, n, d, lim) ==
    \/ v = lim /\ n >= lim * d
    \/ v < lim /\ (IF n >= 0 THEN v * d <= n /\ n < (v + 1) * d
                              ELSE v * d >= n /\ n > (v - 1) * d)

fm_height == args.feature_map_shape[1]
fm_width == args.feature_map_shape[2]

\* The normalised corners of candidate a.
CornersOf(a) == NormalisedBox(activated, args.anchors, At(boxes, a).cell)

\* C15 (as claimed): the pixel coordinates of every candidate are the
\* normalised coordinates scaled, rounded to the nearest integer and
\* clipped from above (xmin and both y by fm_height, xmax by fm_width).
C15_RoundedThenClipped ==
    \A a \in BoxIds :
        LET n == CornersOf(a)
            b == At(boxes, a)
        IN  /\ ClippedRound(b.xmin, n.xmin * fm_width, n.dx, fm_height)
            /\ ClippedRound(b.ymin, n.ymin * fm_height, n.dy, fm_height)
            /\ ClippedRound(b.xmax, n.xmax * fm_width, n.dx, fm_width)
            /\ ClippedRound(b.ymax, n.ymax * fm_height, n.dy, fm_height)

\* C15 (amended): the pixel coordinates of every candidate are the
\* normalised coordinates scaled, truncated toward zero and clipped from
\* above (xmin and both y by fm_height, xmax by fm_width); so xmin, ymin
\* and ymax are at most fm_height and xmax is at most fm_width.
C15_TruncatedThenClipped ==
    \A a \in BoxIds :
        LET n == CornersOf(a)
            b == At(boxes, a)
        IN  /\ ClippedTrunc(b.xmin, n.xmin * fm_width, n.dx, fm_height)
            /\ ClippedTrunc(b.ymin, n.ymin * fm_height, n.dy, fm_height)
            /\ ClippedTrunc(b.xmax, n.xmax * fm_width, n.dx, fm_width)
            /\ ClippedTrunc(b.ymax, n.ymax * fm_height, n.dy, fm_height)
            /\ b.xmin <= fm_height /\ b.ymin <= fm_height
            /\ b.xmax <= fm_width /\ b.ymax <= fm_height

\* The candidates of a call include a box whose xmin was cut down to
\* fm_height, one whose xmax was cut down to fm_width, one with a negative
\* coordinate whose fractional part was dropped, and one with a coordinate
\* whose fractional part, above one half, was dropped.
C15_Witness ==
    /\ \E a \in BoxIds :
          /\ At(boxes, a).xmin = fm_height
          /\ CornersOf(a).xmin * fm_width >= (fm_height + 1) * CornersOf(a).dx
    /\ \E a \in BoxIds :
          /\ At(boxes, a).xmax = fm_width
          /\ CornersOf(a).xmax * fm_width >= (fm_width + 1) * CornersOf(a).dx
    /\ \E a \in BoxIds :
          /\ At(boxes, a).xmin < 0
          /\ At(boxes, a).xmin * CornersOf(a).dx > CornersOf(a).xmin * fm_width
    /\ \E a \in BoxIds :
          /\ At(boxes, a).xmax < fm_width
          /\ 2 * (CornersOf(a).xmax * fm_width - At(boxes, a).xmax * CornersOf(a).dx)
                > CornersOf(a).dx

\* The array t with the class logits of the triple at index ix replaced.
WithClassLogits(t, ix, logits) ==
    [t EXCEPT !.cells[ix] = SubSeq(@, 1, 5) \o logits]

\* Class logits another triple may hold instead of its own.
OtherLogits == {Zeros, Hot(1, 2 * Scale), Hot(2, -200 * Scale)}

\* C16 (as claimed): the activated class scores of a triple depend on that
\* triple's own objectness and class logits only: with the class logits of
\* any other triple replaced, the activation pass leaves this triple the
\* same scores.
C16_ScoresOfOwnTripleOnly ==
    (pc = "activated" /\ ncall = 1) =>
        \A ix \in DOMAIN entry.cells : \A other \in DOMAIN entry.cells \ {ix} :
            \A lg \in OtherLogits :
                ClassPart(ActivateArray(WithClassLogits(entry, other, lg),
                                        args.obj_thre).cells[ix])
                   = ClassPart(yolo_out.cells[ix])

====
